---- MODULE Spec2Model ----
(***************************************************************************)
(* A model of setup.py of rust_util: one run of the script, statement by   *)
(* statement, in an environment made of the README.md file and the set of  *)
(* third-party modules that can be imported.  The script can be invoked    *)
(* again after it has exited; the environment may change between two       *)
(* invocations, never during one.                                          *)
(***************************************************************************)
EXTENDS Naturals, Sequences, FiniteSets

(* Longest README.md content explored, in characters. *)
MaxLen == 2

(* The characters of a README.md: an ordinary one, carriage return, line feed. *)
Chars == {"a", "CR", "LF"}

RECURSIVE SeqsUpTo(_)
SeqsUpTo(n) ==
  IF n = 0 THEN {<<>>}
  ELSE LET shorter == SeqsUpTo(n - 1)
       IN  shorter \cup {Append(s, c) : s \in shorter, c \in Chars}

Contents == SeqsUpTo(MaxLen)

(* What README.md can be: missing, not permitted, not decodable as text,   *)
(* or a text file.  Only a text file has content the script can observe.   *)
ReadmeStates ==
  {[status |-> s, content |-> <<>>] : s \in {"absent", "denied", "undecodable"}}
    \cup {[status |-> "ok", content |-> c] : c \in Contents}

(* The third-party modules setup.py imports. *)
ThirdParty == {"setuptools", "setuptools_rust"}

VARIABLES
  readme,            \* the file README.md in the working directory
  installed,         \* the third-party modules importable in this interpreter
  pc,                \* the statement the run is at
  names,             \* the names imports have bound in the module namespace
  RUST_EXTENSIONS,   \* the module-level list (<<>> while unassigned)
  SETUP_REQUIRES,    \* the module-level list (<<>> while unassigned)
  fh,                \* mode of the handle opened on README.md ("none" before)
  long_description,  \* <<>> before the read, <<text>> once read() has returned
  calls,             \* the keyword arguments of each call of setup() in this run
  trace,             \* the steps this run has executed, in order
  raised,            \* the exception raised in this run ("none" when none)
  exitWith,          \* how the run ended: "running", "ok" or the exception
  prev               \* <<>> or <<r>>: the previous run's environment and result

vars == <<readme, installed, pc, names, RUST_EXTENSIONS, SETUP_REQUIRES, fh,
          long_description, calls, trace, raised, exitWith, prev>>

env == <<readme, installed>>
run == <<names, RUST_EXTENSIONS, SETUP_REQUIRES, fh, long_description, calls,
         trace, raised, exitWith>>

----------------------------------------------------------------------------
(* open('README.md') is in text mode with newline=None: read() returns the  *)
(* text with every CR LF pair and every lone CR turned into LF.             *)
RECURSIVE Translate(_)
Translate(s) ==
  IF s = <<>> THEN <<>>
  ELSE IF Head(s) = "CR"
       THEN IF Len(s) >= 2 /\ s[2] = "LF"
            THEN <<"LF">> \o Translate(SubSeq(s, 3, Len(s)))
            ELSE <<"LF">> \o Translate(Tail(s))
       ELSE <<Head(s)>> \o Translate(Tail(s))

RECURSIVE StripTrailing(_)
StripTrailing(t) ==
  IF t # <<>> /\ t[Len(t)] = "LF" THEN StripTrailing(SubSeq(t, 1, Len(t) - 1))
  ELSE t

(* A read that drops the line ends at the end, as .read().rstrip() would. *)
FileReadStripped(content) == StripTrailing(Translate(content))

(* .read() with no size: the whole file, from the start to the end. *)
FileRead(content) == Translate(SubSeq(content, 1, Len(content)))

RustExtension(target, path, binding) ==
  [name |-> target, path |-> path, binding |-> binding]

RustExtensionsValue ==
  <<RustExtension("rust_util", "rust_util/Cargo.toml", "RustCPython")>>

SetupRequiresSorted == <<"setuptools", "wheel", "setuptools-rust">>

SetupRequiresValue == <<"setuptools", "setuptools-rust", "wheel">>

(* A descriptor whose version counts the invocations. *)
DescriptorStamped(ld) ==
  [name |-> "rust_util",
   author |-> "Jake Curran",
   author_email |-> "jake@jakecurran.com",
   description |-> "Util package to enable Rust code as part of a Python project.",
   long_description |-> ld,
   version |-> IF prev = <<>> THEN "1.0" ELSE "1.1",
   rust_extensions |-> RUST_EXTENSIONS,
   setup_requires |-> SETUP_REQUIRES,
   zip_safe |-> FALSE]

(* The keyword arguments of the call of setup(). *)
Descriptor(ld) ==
  [name |-> "rust_util",
   author |-> "Jake Curran",
   author_email |-> "jake@jakecurran.com",
   description |-> "Util package to enable Rust code as part of a Python project.",
   long_description |-> ld,
   version |-> "1.0",
   rust_extensions |-> RUST_EXTENSIONS,
   setup_requires |-> SETUP_REQUIRES,
   zip_safe |-> FALSE]

Log(step) == Append(trace, step)

(* An exception leaves the statement that raised it. *)
Raise(e, step) ==
  /\ raised' = e
  /\ pc' = "unwinding"
  /\ trace' = Log(step)

----------------------------------------------------------------------------
Init ==
  /\ readme \in ReadmeStates
  /\ installed \in SUBSET ThirdParty
  /\ pc = "idle"
  /\ names = {}
  /\ RUST_EXTENSIONS = <<>>
  /\ SETUP_REQUIRES = <<>>
  /\ fh = "none"
  /\ long_description = <<>>
  /\ calls = <<>>
  /\ trace = <<>>
  /\ raised = "none"
  /\ exitWith = "running"
  /\ prev = <<>>

(* The interpreter starts executing the script. *)
Start ==
  /\ pc = "idle"
  /\ pc' = "l3"
  /\ UNCHANGED <<env, run, prev>>

(* import subprocess *)
ImportSubprocess ==
  /\ pc = "l3"
  /\ names' = names \cup {"subprocess"}
  /\ trace' = Log("import subprocess")
  /\ pc' = "l4"
  /\ UNCHANGED <<env, RUST_EXTENSIONS, SETUP_REQUIRES, fh, long_description,
                 calls, raised, exitWith, prev>>

(* import sys *)
ImportSys ==
  /\ pc = "l4"
  /\ names' = names \cup {"sys"}
  /\ trace' = Log("import sys")
  /\ pc' = "l6"
  /\ UNCHANGED <<env, RUST_EXTENSIONS, SETUP_REQUIRES, fh, long_description,
                 calls, raised, exitWith, prev>>

(* from setuptools import setup *)
ImportSetuptools ==
  /\ pc = "l6"
  /\ IF "setuptools" \in installed
     THEN /\ names' = names \cup {"setup"}
          /\ trace' = Log("import setuptools")
          /\ pc' = "l7"
          /\ UNCHANGED raised
     ELSE /\ Raise("ModuleNotFoundError", "import setuptools")
          /\ UNCHANGED names
  /\ UNCHANGED <<env, RUST_EXTENSIONS, SETUP_REQUIRES, fh, long_description,
                 calls, exitWith, prev>>

(* from setuptools_rust import Binding, RustExtension *)
ImportSetuptoolsRust ==
  /\ pc = "l7"
  /\ IF "setuptools_rust" \in installed
     THEN /\ names' = names \cup {"Binding", "RustExtension"}
          /\ trace' = Log("import setuptools_rust")
          /\ pc' = "l9"
          /\ UNCHANGED raised
     ELSE /\ Raise("ModuleNotFoundError", "import setuptools_rust")
          /\ UNCHANGED names
  /\ UNCHANGED <<env, RUST_EXTENSIONS, SETUP_REQUIRES, fh, long_description,
                 calls, exitWith, prev>>

(* A construction of the list that first asks the toolchain for its version. *)
BuildRustExtensionsProbing ==
  /\ pc = "l9"
  /\ RUST_EXTENSIONS' = RustExtensionsValue
  /\ trace' = Log("spawn") \o <<"RUST_EXTENSIONS">>
  /\ pc' = "l13"
  /\ UNCHANGED <<env, names, SETUP_REQUIRES, fh, long_description, calls,
                 raised, exitWith, prev>>

(* RUST_EXTENSIONS = [RustExtension(...)] *)
BuildRustExtensions ==
  /\ pc = "l9"
  /\ RUST_EXTENSIONS' = RustExtensionsValue
  /\ trace' = Log("RUST_EXTENSIONS")
  /\ pc' = "l13"
  /\ UNCHANGED <<env, names, SETUP_REQUIRES, fh, long_description, calls,
                 raised, exitWith, prev>>

(* SETUP_REQUIRES = [...] *)
BuildSetupRequires ==
  /\ pc = "l13"
  /\ SETUP_REQUIRES' = SetupRequiresValue
  /\ trace' = Log("SETUP_REQUIRES")
  /\ pc' = "l15"
  /\ UNCHANGED <<env, names, RUST_EXTENSIONS, fh, long_description, calls,
                 raised, exitWith, prev>>

(* An open that treats a missing README.md as an empty one. *)
OpenReadmeLenient ==
  /\ pc = "l15"
  /\ IF readme.status = "denied"
     THEN /\ Raise("PermissionError", "open")
          /\ UNCHANGED <<fh, long_description>>
     ELSE /\ fh' = "r"
          /\ trace' = Log("open")
          /\ pc' = IF readme.status = "absent" THEN "l15_call" ELSE "l19_read"
          /\ long_description' =
               IF readme.status = "absent" THEN <<<<>>>> ELSE long_description
          /\ UNCHANGED raised
  /\ UNCHANGED <<env, names, RUST_EXTENSIONS, SETUP_REQUIRES, calls, exitWith,
                 prev>>

(* open('README.md'): the first argument of setup(...) that does anything. *)
OpenReadme ==
  /\ pc = "l15"
  /\ IF readme.status = "absent"
     THEN /\ Raise("FileNotFoundError", "open")
          /\ UNCHANGED fh
     ELSE IF readme.status = "denied"
     THEN /\ Raise("PermissionError", "open")
          /\ UNCHANGED fh
     ELSE /\ fh' = "r"
          /\ trace' = Log("open")
          /\ pc' = "l19_read"
          /\ UNCHANGED raised
  /\ UNCHANGED <<env, names, RUST_EXTENSIONS, SETUP_REQUIRES, long_description,
                 calls, exitWith, prev>>

(* .read() on the handle just opened. *)
ReadReadme ==
  /\ pc = "l19_read"
  /\ IF readme.status = "undecodable"
     THEN /\ Raise("UnicodeDecodeError", "read")
          /\ UNCHANGED long_description
     ELSE /\ long_description' = <<FileRead(readme.content)>>
          /\ trace' = Log("read")
          /\ pc' = "l15_call"
          /\ UNCHANGED raised
  /\ UNCHANGED <<env, names, RUST_EXTENSIONS, SETUP_REQUIRES, fh, calls,
                 exitWith, prev>>

(* A call of setup() made as soon as the lists exist, before the read. *)
CallSetupEarly ==
  /\ pc \in {"l15", "l15_call"}
  /\ calls' = Append(calls, Descriptor(<<>>))
  /\ trace' = Log("setup")
  /\ pc' = "in_setup"
  /\ UNCHANGED <<env, names, RUST_EXTENSIONS, SETUP_REQUIRES, fh,
                 long_description, raised, exitWith, prev>>

(* setup(name=..., ..., zip_safe=False): every argument has been evaluated. *)
CallSetup ==
  /\ pc = "l15_call"
  /\ calls' = Append(calls, Descriptor(long_description[1]))
  /\ trace' = Log("setup")
  /\ pc' = "in_setup"
  /\ UNCHANGED <<env, names, RUST_EXTENSIONS, SETUP_REQUIRES, fh,
                 long_description, raised, exitWith, prev>>

(* setup() returns; it was the last statement, the interpreter exits. *)
SetupReturns ==
  /\ pc = "in_setup"
  /\ exitWith' = "ok"
  /\ pc' = "exited"
  /\ UNCHANGED <<env, names, RUST_EXTENSIONS, SETUP_REQUIRES, fh,
                 long_description, calls, trace, raised, prev>>

(* setup() raises: a build step of the orchestrator failed. *)
SetupRaises ==
  /\ pc = "in_setup"
  /\ raised' = "SetupError"
  /\ pc' = "unwinding"
  /\ UNCHANGED <<env, names, RUST_EXTENSIONS, SETUP_REQUIRES, fh,
                 long_description, calls, trace, exitWith, prev>>

(* A handler that starts the call of setup(...) over on a failure. *)
PropagateRetrying ==
  /\ pc = "unwinding"
  /\ pc' = "l15"
  /\ raised' = "none"
  /\ UNCHANGED <<env, names, RUST_EXTENSIONS, SETUP_REQUIRES, fh,
                 long_description, calls, trace, exitWith, prev>>

(* No try statement encloses any statement: the exception ends the run. *)
Propagate ==
  /\ pc = "unwinding"
  /\ exitWith' = raised
  /\ pc' = "exited"
  /\ UNCHANGED <<env, names, RUST_EXTENSIONS, SETUP_REQUIRES, fh,
                 long_description, calls, trace, raised, prev>>

(* What a run came to up to the hand-off: "handed", or the exception. *)
ConfigOutcome == IF calls # <<>> THEN "handed" ELSE exitWith

(* The process is gone; the script may be invoked again. *)
NextInvocation ==
  /\ pc = "exited"
  /\ prev' = <<[readme |-> readme, installed |-> installed,
                outcome |-> ConfigOutcome, calls |-> calls]>>
  /\ pc' = "idle"
  /\ names' = {}
  /\ RUST_EXTENSIONS' = <<>>
  /\ SETUP_REQUIRES' = <<>>
  /\ fh' = "none"
  /\ long_description' = <<>>
  /\ calls' = <<>>
  /\ trace' = <<>>
  /\ raised' = "none"
  /\ exitWith' = "running"
  /\ UNCHANGED env

(* Between two invocations README.md or the installed modules change. *)
EnvChange ==
  /\ pc = "idle"
  /\ readme' \in ReadmeStates
  /\ installed' \in SUBSET ThirdParty
  /\ <<readme', installed'>> # <<readme, installed>>
  /\ UNCHANGED <<pc, run, prev>>

Next ==
  \/ Start
  \/ ImportSubprocess
  \/ ImportSys
  \/ ImportSetuptools
  \/ ImportSetuptoolsRust
  \/ BuildRustExtensions
  \/ BuildSetupRequires
  \/ OpenReadme
  \/ ReadReadme
  \/ CallSetup
  \/ SetupReturns
  \/ SetupRaises
  \/ Propagate
  \/ NextInvocation
  \/ EnvChange

Spec == Init /\ [][Next]_vars

----------------------------------------------------------------------------
(* The claims.                                                              *)

Literals ==
  [name |-> "rust_util",
   author |-> "Jake Curran",
   author_email |-> "jake@jakecurran.com",
   description |-> "Util package to enable Rust code as part of a Python project.",
   version |-> "1.0",
   rust_extensions |->
     <<[name |-> "rust_util", path |-> "rust_util/Cargo.toml",
        binding |-> "RustCPython"]>>,
   setup_requires |-> <<"setuptools", "setuptools-rust", "wheel">>,
   zip_safe |-> FALSE]

(* The fields of a descriptor other than long_description. *)
OtherFields(d) ==
  [name |-> d.name, author |-> d.author, author_email |-> d.author_email,
   description |-> d.description, version |-> d.version,
   rust_extensions |-> d.rust_extensions, setup_requires |-> d.setup_requires,
   zip_safe |-> d.zip_safe]

ReadmeErrors == {"FileNotFoundError", "PermissionError", "UnicodeDecodeError"}

(* The steps that touch nothing outside the interpreter. *)
InternalSteps ==
  {"import subprocess", "import sys", "import setuptools",
   "import setuptools_rust", "RUST_EXTENSIONS", "SETUP_REQUIRES"}

IsExternal(step) == step \notin InternalSteps

Count(step) == Cardinality({i \in DOMAIN trace : trace[i] = step})

IsPrefix(s, t) == Len(s) <= Len(t) /\ s = SubSeq(t, 1, Len(s))

FixedOrder ==
  <<"import subprocess", "import sys", "import setuptools",
    "import setuptools_rust", "RUST_EXTENSIONS", "SETUP_REQUIRES",
    "open", "read", "setup">>

(* T with each LF that follows a CR removed and each CR made an LF, stated  *)
(* on positions rather than by recursion.                                   *)
NewlinesNormalised(T) ==
  LET keep == {i \in DOMAIN T : ~(i > 1 /\ T[i] = "LF" /\ T[i - 1] = "CR")}
      at(k) == CHOOSE i \in keep : Cardinality({j \in keep : j <= i}) = k
  IN  [k \in 1..Cardinality(keep) |->
         IF T[at(k)] = "CR" THEN "LF" ELSE T[at(k)]]

(* C1: whenever README.md cannot be read, the run never calls setup(), has  *)
(* done nothing outside the interpreter but try to open and read README.md, *)
(* and, once over, has ended with an exception.                             *)
C1_ReadFailureAbortsBeforeSetup ==
  readme.status # "ok" =>
    /\ calls = <<>>
    /\ \A i \in DOMAIN trace : IsExternal(trace[i]) => trace[i] \in {"open", "read"}
    /\ pc = "exited" => exitWith \notin {"ok", "running"}

C1_Witness ==
  /\ readme.status = "absent"
  /\ pc = "exited"
  /\ exitWith = "FileNotFoundError"
  /\ calls = <<>>

(* C2: the keyword arguments of every call of setup() are the declared      *)
(* literals: name, author, author_email, description, version, the one      *)
(* RustExtension, the three requirements in their order, zip_safe False.    *)
C2_DescriptorIsLiteral ==
  \A i \in DOMAIN calls : OtherFields(calls[i]) = Literals

C2_Witness ==
  /\ readme.status = "ok"
  /\ pc = "in_setup"
  /\ Len(calls) = 1
  /\ calls[1].setup_requires[2] = "setuptools-rust"

(* C3, as stated: long_description is the content of README.md exactly,     *)
(* whatever the content, and no other field depends on it.                  *)
C3_LongDescriptionIsContent ==
  \A i \in DOMAIN calls :
    /\ calls[i].long_description = readme.content
    /\ OtherFields(calls[i]) = Literals

(* C3, amended: long_description is the content of README.md with each CR   *)
(* LF pair and each lone CR replaced by one LF, hence the content exactly   *)
(* when it holds no CR (the empty content included); nothing else is added, *)
(* stripped or truncated, and no other field depends on the content.        *)
C3_LongDescriptionIsContentUpToNewlines ==
  \A i \in DOMAIN calls :
    /\ calls[i].long_description = NewlinesNormalised(readme.content)
    /\ (\A k \in DOMAIN readme.content : readme.content[k] # "CR")
         => calls[i].long_description = readme.content
    /\ OtherFields(calls[i]) = Literals

C3_Witness ==
  /\ Len(calls) = 1
  /\ readme.content = <<"CR", "LF">>
  /\ calls[1].long_description = <<"LF">>

(* C4: two consecutive invocations in the same environment come to the same *)
(* result up to the hand-off (both call setup(), or both fail with the same *)
(* exception) and hand over descriptors equal in every field.               *)
C4_Deterministic ==
  (/\ pc = "exited"
   /\ prev # <<>>
   /\ prev[1].readme = readme
   /\ prev[1].installed = installed)
    => /\ prev[1].outcome = ConfigOutcome
       /\ prev[1].calls = calls

C4_Witness ==
  /\ pc = "exited"
  /\ prev # <<>>
  /\ prev[1].readme = readme
  /\ prev[1].installed = installed
  /\ Len(calls) = 1
  /\ Len(calls[1].long_description) = 2

(* C5: a run hands the descriptor to setup() at most once, and exactly once *)
(* when README.md is readable; what was handed over stays what the module   *)
(* level lists hold.                                                        *)
C5_HandedExactlyOnce ==
  /\ Len(calls) <= 1
  /\ (pc = "exited" /\ readme.status = "ok") => Len(calls) = 1
  /\ \A i \in DOMAIN calls :
       /\ calls[i].rust_extensions = RUST_EXTENSIONS
       /\ calls[i].setup_requires = SETUP_REQUIRES

(* C6: up to the call of setup() the run does nothing outside the           *)
(* interpreter but open README.md for reading and read it: no process is    *)
(* spawned, nothing is written, nothing is sent.                            *)
C6_OnlyReadmeRead ==
  /\ IsPrefix(SelectSeq(trace, LAMBDA s : IsExternal(s) /\ s # "setup"),
              <<"open", "read">>)
  /\ fh \in {"none", "r"}

C6_Witness ==
  /\ pc = "in_setup"
  /\ SelectSeq(trace, IsExternal) = <<"open", "read", "setup">>

(* C7: a run that fails before setup() is called fails because README.md    *)
(* could not be read, and for no other reason.                              *)
C7_OnlyReadmeCanFail ==
  (raised # "none" /\ calls = <<>>) => raised \in ReadmeErrors

(* C8: an exception is never caught, changed or retried: once one is        *)
(* raised no statement runs again and the run ends with that exception;     *)
(* README.md is opened and read at most once and setup() called at most     *)
(* once.                                                                    *)
C8_NoCatchNoRetry ==
  /\ raised # "none" => pc \in {"unwinding", "exited"}
  /\ (pc = "exited" /\ raised # "none") => exitWith = raised
  /\ (pc = "exited" /\ raised = "none") => exitWith = "ok"
  /\ Count("open") <= 1
  /\ Count("read") <= 1
  /\ Count("setup") <= 1
  /\ Len(calls) = Count("setup")

C8_Witness ==
  /\ pc = "exited"
  /\ exitWith = "SetupError"
  /\ Count("setup") = 1
  /\ Count("read") = 1

(* C9: the steps of a run are an initial part of one fixed order: imports,  *)
(* RUST_EXTENSIONS, SETUP_REQUIRES, open (read-only), read, setup(); setup()*)
(* is entered only with the read done; a run whose read of README.md failed *)
(* has built the RustExtension and never handed it over.                    *)
C9_FixedOrder ==
  /\ IsPrefix(trace, FixedOrder)
  /\ fh \in {"none", "r"}
  /\ Count("setup") > 0 => long_description # <<>>
  /\ raised \in ReadmeErrors =>
       /\ RUST_EXTENSIONS = RustExtensionsValue
       /\ SETUP_REQUIRES = SetupRequiresValue
       /\ calls = <<>>

C9_Witness ==
  /\ raised = "UnicodeDecodeError"
  /\ pc = "exited"
  /\ Len(RUST_EXTENSIONS) = 1
  /\ trace[Len(trace)] = "read"
  /\ calls = <<>>

====
